---- MODULE Spec2Model ----
(***************************************************************************)
(* Model of src/ir/item.rs of cargo-call-stack: the item-level recognizers *)
(* of the LLVM-IR text parser and the dispatcher `item`.                   *)
(*                                                                         *)
(* Input text is a sequence of one-character strings.  A parser maps an    *)
(* input to a record [ok, rest, val]: on success `rest` is the unconsumed  *)
(* remainder and `val` the value; on failure `rest` is the position at     *)
(* which the failing sub-parser was started (nom's error position) and     *)
(* `val` is <<>>.                                                          *)
(***************************************************************************)
EXTENDS Naturals, Sequences, FiniteSets

(***************************************************************************)
(* Bounds of the model.                                                    *)
(***************************************************************************)
MaxTail == 2      \* length of the free text appended to a generated line
MaxAttrs == 1     \* attributes in front of a keyword or a return type
MaxParams == 2    \* parameters of a generated declare line

(***************************************************************************)
(* Text helpers.                                                           *)
(***************************************************************************)
Drop(s, n) == SubSeq(s, n + 1, Len(s))

Take(s, n) == SubSeq(s, 1, n)

starts_with(s, p) == Len(p) <= Len(s) /\ Take(s, Len(p)) = p

Ok(rest, val) == [ok |-> TRUE, rest |-> rest, val |-> val]

Err(at) == [ok |-> FALSE, rest |-> at, val |-> <<>>]

(***************************************************************************)
(* nom 4 combinators over CompleteStr, as item.rs uses them.               *)
(***************************************************************************)
\* tag!(t): the input begins with t
tag(t, i) == IF starts_with(i, t) THEN Ok(Drop(i, Len(t)), <<>>) ELSE Err(i)

\* char!(c)
char(c, i) == IF i # <<>> /\ Head(i) = c THEN Ok(Tail(i), <<>>) ELSE Err(i)

IsSpace(c) == c \in {" ", "\t"}

RECURSIVE SkipSpaces(_)
SkipSpaces(i) == IF i # <<>> /\ IsSpace(Head(i)) THEN SkipSpaces(Tail(i)) ELSE i

\* space: one or more spaces or tabs
space(i) == IF i # <<>> /\ IsSpace(Head(i)) THEN Ok(SkipSpaces(i), <<>>) ELSE Err(i)

\* space0: zero or more spaces or tabs
space0(i) == Ok(SkipSpaces(i), <<>>)

RECURSIVE UntilLineEnding(_)
UntilLineEnding(i) ==
    IF i = <<>> \/ Head(i) \in {"\r", "\n"} THEN i ELSE UntilLineEnding(Tail(i))

\* not_line_ending: everything up to the first \r or \n; an \r that is not
\* followed by \n is an error
not_line_ending(i) ==
    LET r == UntilLineEnding(i)
    IN  IF r # <<>> /\ Head(r) = "\r" /\ ~starts_with(r, <<"\r", "\n">>)
        THEN Err(i)
        ELSE Ok(r, <<>>)

\* the start of a do_parse!: nothing read, nothing bound
Begin(i) == Ok(i, <<>>)

Keep(v, q) == IF q.ok THEN Ok(q.rest, v) ELSE q

Push(v, q) == IF q.ok THEN Ok(q.rest, Append(v, q.val)) ELSE q

\* one step of do_parse!, `P >>`: run P on what r left and drop P's value;
\* a failure of r or of P is the failure of the whole
Then(r, P(_)) == IF r.ok THEN Keep(r.val, P(r.rest)) ELSE r

\* one step of do_parse!, `name: P >>`: P's value is added to the bound ones
Bind(r, P(_)) == IF r.ok THEN Push(r.val, P(r.rest)) ELSE r

\* run P on what r left; the value is P's
Last(r, P(_)) == IF r.ok THEN P(r.rest) ELSE r

\* alt!(p | q) of two parsers run on the same input
Or(p, q) == IF p.ok THEN p ELSE q

\* the value of a successful parse r becomes v (map!, or do_parse!'s result)
Map(r, v) == IF r.ok THEN Ok(r.rest, v) ELSE r

(***************************************************************************)
(* Literals of the grammar.                                                *)
(***************************************************************************)
S_declare == <<"d", "e", "c", "l", "a", "r", "e">>

S_define == <<"d", "e", "f", "i", "n", "e">>

S_alias == <<"a", "l", "i", "a", "s">>

S_global == <<"g", "l", "o", "b", "a", "l">>

S_constant == <<"c", "o", "n", "s", "t", "a", "n", "t">>

S_void == <<"v", "o", "i", "d">>

S_source_filename == <<"s", "o", "u", "r", "c", "e", "_", "f", "i", "l", "e", "n", "a", "m", "e">>

S_target == <<"t", "a", "r", "g", "e", "t">>

S_datalayout == <<"d", "a", "t", "a", "l", "a", "y", "o", "u", "t">>

S_triple == <<"t", "r", "i", "p", "l", "e">>

S_attributes == <<"a", "t", "t", "r", "i", "b", "u", "t", "e", "s">>

S_llvm_dot == <<"l", "l", "v", "m", ".">>

S_noalias == <<"n", "o", "a", "l", "i", "a", "s">>

S_private == <<"p", "r", "i", "v", "a", "t", "e">>

S_unnamed_addr == <<"u", "n", "n", "a", "m", "e", "d", "_", "a", "d", "d", "r">>

(***************************************************************************)
(* Values: Item, Declare, FnSig (item.rs) and Type.  An Option is a        *)
(* sequence of length 0 (None) or 1 (Some).                                *)
(***************************************************************************)
MkItem(t, n, a, s) == [tag |-> t, name |-> n, alias |-> a, sig |-> s]

Item_Alias(n, a) == MkItem("Alias", n, a, <<>>)

Item_Comment == MkItem("Comment", <<>>, <<>>, <<>>)

Item_SourceFilename == MkItem("SourceFilename", <<>>, <<>>, <<>>)

Item_Target == MkItem("Target", <<>>, <<>>, <<>>)

Item_Global == MkItem("Global", <<>>, <<>>, <<>>)

Item_Type == MkItem("Type", <<>>, <<>>, <<>>)

Item_Define(n) == MkItem("Define", n, <<>>, <<>>)

\* Declare { name, sig }
Item_Declare(n, s) == MkItem("Declare", n, <<>>, s)

Item_Attributes == MkItem("Attributes", <<>>, <<>>, <<>>)

Item_Metadata == MkItem("Metadata", <<>>, <<>>, <<>>)

FnSig(output, inputs) == [output |-> output, inputs |-> inputs]

Type_Integer(w) == [k |-> "Integer", w |-> w, of |-> <<>>]

Type_Pointer(t) == [k |-> "Pointer", w |-> 0, of |-> <<t>>]

Type_Fn == [k |-> "Fn", w |-> 0, of |-> <<>>]

(***************************************************************************)
(* The lexical collaborators of the parent module (super::...), which      *)
(* item.rs calls: symbol names, one attribute, one type, a comment and a   *)
(* function definition.                                                    *)
(***************************************************************************)
Digits == <<"0", "1", "2", "3", "4", "5", "6", "7", "8", "9">>

IsDigit(c) == \E n \in 1..10 : Digits[n] = c

DigitVal(c) == (CHOOSE n \in 1..10 : Digits[n] = c) - 1

IsIdentChar(c) ==
    \/ IsDigit(c)
    \/ c \in {"a", "b", "c", "d", "e", "f", "g", "h", "i", "j", "k", "l", "m",
              "n", "o", "p", "q", "r", "s", "t", "u", "v", "w", "x", "y", "z",
              "_", "."}

RECURSIVE IdentLen(_)
IdentLen(i) == IF i # <<>> /\ IsIdentChar(Head(i)) THEN 1 + IdentLen(Tail(i)) ELSE 0

\* a non-empty identifier after the sigil s has read
identifier(s) ==
    IF ~s.ok THEN s
    ELSE IF IdentLen(s.rest) = 0 THEN Err(s.rest)
    ELSE Ok(Drop(s.rest, IdentLen(s.rest)), Take(s.rest, IdentLen(s.rest)))

\* a sigil and a non-empty identifier; the value is the name without the sigil
symbol(sigil, i) == identifier(char(sigil, i))

\* super::function: `@name`
super_function(i) == symbol("@", i)

\* super::global: `@name` or `@0`
super_global(i) == symbol("@", i)

\* super::alias: `%name`
super_alias(i) == symbol("%", i)

\* super::comment: `;` and the rest of the line
super_comment(i) == Then(char(";", i), not_line_ending)

\* super::attribute: one attribute keyword
super_attribute(i) == Or(tag(S_noalias, i), Or(tag(S_private, i), tag(S_unnamed_addr, i)))

RECURSIVE DigitsLen(_)
DigitsLen(i) == IF i # <<>> /\ IsDigit(Head(i)) THEN 1 + DigitsLen(Tail(i)) ELSE 0

RECURSIVE Decimal(_)
Decimal(d) == IF d = <<>> THEN 0 ELSE 10 * Decimal(Take(d, Len(d) - 1)) + DigitVal(d[Len(d)])

RECURSIVE StarsLen(_)
StarsLen(i) == IF i # <<>> /\ Head(i) = "*" THEN 1 + StarsLen(Tail(i)) ELSE 0

RECURSIVE Pointers(_, _)
Pointers(t, n) == IF n = 0 THEN t ELSE Pointers(Type_Pointer(t), n - 1)

\* the decimal width after the `i` that c has read
integer_width(c) ==
    IF c.ok /\ DigitsLen(c.rest) > 0
    THEN Ok(Drop(c.rest, DigitsLen(c.rest)), Type_Integer(Decimal(Take(c.rest, DigitsLen(c.rest)))))
    ELSE Err(c.rest)

\* the function type `void ()`
function_type(i) ==
    Map(Then(Then(Then(tag(S_void, i), space), LAMBDA x : char("(", x)),
             LAMBDA x : char(")", x)),
        Type_Fn)

\* `iN`, or the function type `void ()`
type_atom(i) == Or(integer_width(char("i", i)), function_type(i))

\* any number of `*` after the atom a
pointer_suffix(a) ==
    IF a.ok THEN Ok(Drop(a.rest, StarsLen(a.rest)), Pointers(a.val, StarsLen(a.rest))) ELSE a

\* super::type_: an atom followed by any number of `*`
super_type(i) == pointer_suffix(type_atom(i))

\* many0!(do_parse!(call!(super::attribute) >> space >> (())))
RECURSIVE many0_attribute_space(_)
many0_attribute_space(i) ==
    LET r == Then(super_attribute(i), space)
    IN  IF r.ok THEN many0_attribute_space(r.rest) ELSE Ok(i, <<>>)

\* many0!(do_parse!(space >> call!(super::attribute) >> (())))
RECURSIVE many0_space_attribute(_)
many0_space_attribute(i) ==
    LET r == Then(space(i), super_attribute)
    IN  IF r.ok THEN many0_space_attribute(r.rest) ELSE Ok(i, <<>>)

\* Some(value) of a successful parse
Some(t) == IF t.ok THEN Ok(t.rest, <<t.val>>) ELSE t

\* alt!(map!(call!(super::type_), Some) | map!(tag!("void"), |_| None))
declare_output(i) == Or(Some(super_type(i)), Map(tag(S_void, i), <<>>))

RECURSIVE UntilBrace(_)
UntilBrace(i) == IF i = <<>> \/ Head(i) = "}" THEN i ELSE UntilBrace(Tail(i))

\* the rest of a definition, through the `}` that closes its body
define_body(p) ==
    IF ~p.ok THEN p
    ELSE IF UntilBrace(p.rest) = <<>> THEN Err(p.rest)
    ELSE Ok(Tail(UntilBrace(p.rest)), p.val[1])

\* super::define::parse: `define` attribute* (type | void) name `(` ... `}`
define_parse(i) ==
    define_body(
        Then(Bind(Then(Then(Then(Then(Then(Begin(i), LAMBDA x : tag(S_define, x)), space),
                                 many0_attribute_space), declare_output), space),
                  super_function),
             LAMBDA x : char("(", x)))

(***************************************************************************)
(* The recognizers of item.rs.                                             *)
(***************************************************************************)
comment(i) == Map(super_comment(i), Item_Comment)

source_filename(i) ==
    Map(Then(Then(Then(tag(S_source_filename, i), space), LAMBDA x : char("=", x)),
             not_line_ending),
        Item_SourceFilename)

target(i) ==
    Map(Then(Then(Then(Then(Then(tag(S_target, i), space),
                            LAMBDA x : Or(tag(S_datalayout, x), tag(S_triple, x))),
                       space), LAMBDA x : char("=", x)), not_line_ending),
        Item_Target)

\* Mutant: the two names in the wrong order.
alias_item_swapped(name, target_name) == Item_Alias(target_name, name)

\* Item::Alias(name.0, alias.0)
alias_item(name, target_name) == Item_Alias(name, target_name)

\* name `=` attribute*
alias_left(i) ==
    Then(Then(Then(Then(Bind(Begin(i), super_function), space), LAMBDA x : char("=", x)),
              space), many0_attribute_space)

\* `alias` type `,` type
alias_types(r) ==
    Then(Then(Then(Then(Then(Then(Then(r, LAMBDA x : tag(S_alias, x)), space), super_type),
                        space0), LAMBDA x : char(",", x)), space), super_type)

alias_result(r) == IF r.ok THEN Ok(r.rest, alias_item(r.val[1], r.val[2])) ELSE r

alias(i) == alias_result(Bind(Then(alias_types(alias_left(i)), space), super_function))

\* Mutant: the keyword of an alias line passes as well.
global_keyword_or_alias(i) == Or(tag(S_global, i), Or(tag(S_constant, i), tag(S_alias, i)))

\* Mutant: any word passes for the keyword.
global_keyword_any_word(i) ==
    IF IdentLen(i) > 0 THEN Ok(Drop(i, IdentLen(i)), <<>>) ELSE Err(i)

\* alt!(tag!("global") | tag!("constant"))
global_keyword(i) == Or(tag(S_global, i), tag(S_constant, i))

global(i) ==
    Map(Then(Then(Then(Then(Then(Then(Then(super_global(i), space), LAMBDA x : char("=", x)),
                                 space), many0_attribute_space), global_keyword), space),
             not_line_ending),
        Item_Global)

type_(i) ==
    Map(Then(Then(Then(super_alias(i), space), LAMBDA x : char("=", x)), not_line_ending),
        Item_Type)

\* the first do_parse! of declare: everything up to and including `(`; its
\* value is <<output, name>>
declare_prefix(i) ==
    Then(Bind(Then(Bind(Then(Then(Then(Begin(i), LAMBDA x : tag(S_declare, x)), space),
                             many0_attribute_space), declare_output), space),
              super_function),
         LAMBDA x : char("(", x))

\* Mutant: the prefix without its dot.
is_intrinsic_no_dot(name) == starts_with(name, <<"l", "l", "v", "m">>)

\* Mutant: every name is taken for a user symbol.
is_intrinsic_never(name) == FALSE

\* name.starts_with("llvm.")
is_intrinsic(name) == starts_with(name, S_llvm_dot)

\* one parameter: a type, then any number of attributes; the type is kept
declare_param(i) == Then(super_type(i), many0_space_attribute)

declare_separator(i) == Then(char(",", i), space)

\* Mutant: each further parameter is put in front of the earlier ones.
RECURSIVE separated_list_rest_prepend(_, _)
separated_list_rest_prepend(i, acc) ==
    LET e == Last(declare_separator(i), declare_param)
    IN  IF e.ok THEN separated_list_rest_prepend(e.rest, <<e.val>> \o acc) ELSE Ok(i, acc)

RECURSIVE separated_list_rest(_, _)
separated_list_rest(i, acc) ==
    LET e == Last(declare_separator(i), declare_param)
    IN  IF e.ok THEN separated_list_rest(e.rest, Append(acc, e.val)) ELSE Ok(i, acc)

\* separated_list!: no element, or the first one and the rest
separated_list_first(f, i) ==
    IF f.ok THEN separated_list_rest(f.rest, <<f.val>>) ELSE Ok(i, <<>>)

\* separated_list!(`,` space, parameter)
declare_inputs(i) == separated_list_first(declare_param(i), i)

\* Declare { name, sig: Some(FnSig { output, inputs }) }
declare_signature(r) ==
    IF r.ok THEN Ok(r.rest, Item_Declare(r.val[2], <<FnSig(r.val[1], r.val[3])>>)) ELSE r

\* the second half of declare, after the prefix p
declare_branch(p) ==
    IF ~p.ok THEN p
    ELSE IF is_intrinsic(p.val[2])
    THEN Map(not_line_ending(p.rest), Item_Declare(p.val[2], <<>>))
    ELSE declare_signature(Then(Then(Bind(p, declare_inputs), LAMBDA x : char(")", x)),
                                not_line_ending))

declare(i) == declare_branch(declare_prefix(i))

attributes(i) ==
    Map(Then(Then(Then(tag(S_attributes, i), space), LAMBDA x : char("#", x)),
             not_line_ending),
        Item_Attributes)

\* Mutant: the sigil alone, the rest of the line left unread.
metadata_sigil_only(i) == Map(tag(<<"!">>, i), Item_Metadata)

metadata(i) == Map(Then(tag(<<"!">>, i), not_line_ending), Item_Metadata)

define_item(d) == IF d.ok THEN Ok(d.rest, Item_Define(d.val)) ELSE d

\* map!(call!(super::define::parse), Item::Define)
define(i) == define_item(define_parse(i))

(***************************************************************************)
(* The dispatcher.                                                         *)
(***************************************************************************)
\* Mutant: global tried before type_, and metadata forgotten.
item_alternatives_reordered ==
    <<"comment", "source_filename", "target", "global", "type_", "alias",
      "define", "declare", "attributes">>

\* the alternatives of `item`, in the order alt! lists them
item_alternatives ==
    <<"comment", "source_filename", "target", "type_", "global", "alias",
      "define", "declare", "attributes", "metadata">>

Run(r, i) ==
    CASE r = "comment" -> comment(i)
      [] r = "source_filename" -> source_filename(i)
      [] r = "target" -> target(i)
      [] r = "type_" -> type_(i)
      [] r = "global" -> global(i)
      [] r = "alias" -> alias(i)
      [] r = "define" -> define(i)
      [] r = "declare" -> declare(i)
      [] r = "attributes" -> attributes(i)
      [] r = "metadata" -> metadata(i)

\* Mutant: the next alternative goes on where the failed one stopped.
alt_no_backtrack(start, failed) == failed.rest

\* what alt! hands the next alternative after one failed: the input it was
\* given itself, not the place the failed alternative stopped at
alt_backtrack(start, failed) == start

\* alt!: the alternatives from the k-th on; `tried` records each attempt
\* as the recognizer and the offset in the input it was started at
RECURSIVE alt(_, _, _, _, _)
alt(alts, k, start, cur, tried) ==
    IF k > Len(alts) THEN [res |-> Err(start), tried |-> tried]
    ELSE LET r == Run(alts[k], cur)
             t == Append(tried, [rec |-> alts[k], at |-> Len(start) - Len(cur)])
         IN  IF r.ok THEN [res |-> r, tried |-> t]
             ELSE alt(alts, k + 1, start, alt_backtrack(start, r), t)

item_traced(i) == alt(item_alternatives, 1, i, i, <<>>)

item(i) == item_traced(i).res

(***************************************************************************)
(* The lines the recognizers are run on.  A line is described by a shape   *)
(* and written out by Render; `tail` is free text after the line's fixed   *)
(* part.                                                                   *)
(***************************************************************************)
\* the characters free text is made of
TailChars == {" ", "x", "\n", "\r", ")", "@"}

RECURSIVE Texts(_)
Texts(n) ==
    IF n = 0 THEN {<<>>}
    ELSE Texts(n - 1) \cup {Append(t, c) : t \in {u \in Texts(n - 1) : Len(u) = n - 1}, c \in TailChars}

\* the fixed parts of the free-form lines: each recognizer's prefix, and
\* near misses of it
Heads ==
    { <<>>,
      <<";">>,
      <<"!">>,
      <<"x">>,
      <<"s", "o", "u", "r", "c", "e", "_", "f", "i", "l", "e", "n", "a", "m", "e", " ", "=">>,
      <<"s", "o", "u", "r", "c", "e", "_", "f", "i", "l", "e", "n", "a", "m", "e", "=">>,
      <<"s", "o", "u", "r", "c", "e", "_", "f", "i", "l", "e", "n", "a", "m", "e", " ", "x">>,
      <<"t", "a", "r", "g", "e", "t", " ", "t", "r", "i", "p", "l", "e", " ", "=">>,
      <<"t", "a", "r", "g", "e", "t", " ", "d", "a", "t", "a", "l", "a", "y", "o", "u", "t", " ", "=">>,
      <<"t", "a", "r", "g", "e", "t", " ", "x", " ", "=">>,
      <<"t", "a", "r", "g", "e", "t", " ", "t", "r", "i", "p", "l", "e">>,
      <<"a", "t", "t", "r", "i", "b", "u", "t", "e", "s", " ", "#">>,
      <<"a", "t", "t", "r", "i", "b", "u", "t", "e", "s", " ", "x">>,
      <<"a", "t", "t", "r", "i", "b", "u", "t", "e", "s", "#">>,
      <<"%", "t", " ", "=", " ", "t", "y", "p", "e">>,
      <<"%", "t", " ", "=", " ", "o", "p", "a", "q", "u", "e">>,
      <<"%", "t", " ", "=">>,
      <<"%", "t", " ", "t", "y", "p", "e">>,
      <<"@", "t", " ", "=", " ", "t", "y", "p", "e">>,
      <<"@", "g", " ", "=", " ", "g", "l", "o", "b", "a", "l">>,
      <<"@", "g", " ", "=", " ", "c", "o", "n", "s", "t", "a", "n", "t">>,
      <<"@", "g", " ", "=", " ", "p", "r", "i", "v", "a", "t", "e", " ", "g", "l", "o", "b", "a", "l">>,
      <<"@", "g", " ", "g", "l", "o", "b", "a", "l">>,
      <<"%", "g", " ", "=", " ", "g", "l", "o", "b", "a", "l">>,
      <<"@", "g", " ", "=", " ", "a", "l", "i", "a", "s">>,
      <<"@", "g", " ", "=", " ", "a", "l", "i", "a", "s", " ", "i", "8", ",", " ", "i", "8", "*", " ", "@", "t">>,
      <<"d", "e", "c", "l", "a", "r", "e", " ", "v", "o", "i", "d", " ", "@", "f", "(">>,
      <<"d", "e", "c", "l", "a", "r", "e", " ", "v", "o", "i", "d", " ", "@", "l", "l", "v", "m", ".", "x", "(">>,
      <<"d", "e", "c", "l", "a", "r", "e", " ", "i", "8", " ", "@", "l", "l", "v", "m", "x", "(">>,
      <<"d", "e", "c", "l", "a", "r", "e", " ", "v", "o", "i", "d", " ", "@", "f", "(", "i", "8">>,
      <<"d", "e", "c", "l", "a", "r", "e", " ", "v", "o", "i", "d", " ", "@", "f">>,
      <<"d", "e", "c", "l", "a", "r", "e", " ", "@", "f", "(">>,
      <<"d", "e", "c", "l", "a", "r", "e", " ", "v", "o", "i", "d", " ", "f", "(">>,
      <<"d", "e", "f", "i", "n", "e", " ", "v", "o", "i", "d", " ", "@", "f", "(", ")", " ", "{">>,
      <<"d", "e", "f", "i", "n", "e", " ", "v", "o", "i", "d", " ", "@", "f", "(", ")", " ", "{", " ", "}">> }

Names == {<<"f">>, <<"l", "l", "v", "m", ".", "x">>, <<"l", "l", "v", "m", "x">>}

\* a parameter as written, the type it denotes, and its attributes
Param(text, ty, n) == [text |-> text, ty |-> ty, attrs |-> n]

ParamChoices ==
    { Param(<<"i", "8">>, Type_Integer(8), 0),
      Param(<<"i", "6", "4">>, Type_Integer(64), 0),
      Param(<<"i", "8", "*">>, Type_Pointer(Type_Integer(8)), 0),
      Param(<<"i", "8", "*">>, Type_Pointer(Type_Integer(8)), 1),
      Param(<<"i", "1">>, Type_Integer(1), 2) }

RECURSIVE ParamLists(_)
ParamLists(n) ==
    IF n = 0 THEN {<<>>}
    ELSE ParamLists(n - 1) \cup
         {Append(l, q) : l \in {u \in ParamLists(n - 1) : Len(u) = n - 1}, q \in ParamChoices}

\* a line ends at its end, at \n or at \r\n
LineEnds == {<<>>, <<" ", "#", "3">>, <<"\n", "x">>, <<"\r", "\n">>}

Shape(kind, head, name, target_name, attrs, kw, params, omit, close, tail) ==
    [kind |-> kind, head |-> head, name |-> name, target |-> target_name, attrs |-> attrs,
     kw |-> kw, params |-> params, omit |-> omit, close |-> close, tail |-> tail]

\* a fixed part followed by free text
FreeShapes ==
    {Shape("free", h, <<>>, <<>>, 0, <<>>, <<>>, "none", FALSE, t) :
        h \in Heads, t \in Texts(MaxTail)}

\* `@g = ` attribute* keyword, and what follows the keyword
SymbolShapes ==
    {Shape("symbol", a, <<"g">>, <<>>, n, k, <<>>, "none", FALSE, <<>>) :
        n \in 0..MaxAttrs,
        k \in {S_global, S_constant, S_alias, <<"t", "y", "p", "e">>},
        a \in {<<>>, <<" ">>, <<" ", "i", "8">>, <<" ", "i", "8", "\n", "x">>,
               <<" ", "i", "8", "\r", "x">>, <<"x", " ", "i", "8">>,
               <<" ", "i", "8", ",", " ", "i", "8", "*", " ", "@", "t">>}}

\* an alias line, whole or with one part left out
AliasShapes ==
    {Shape("alias", <<>>, n, t, a, <<>>, <<>>, o, FALSE, e) :
        n \in Names, t \in Names, a \in 0..MaxAttrs,
        o \in {"none", "alias", "type1", "comma", "type2", "target"},
        e \in {<<>>, <<"\n", "x">>}}

\* a declare line: `declare ` attribute* return-type ` @name(` parameters `)`
DeclareShapes ==
    {Shape("declare", <<>>, n, <<>>, a, r, ps, "none", c, e) :
        n \in Names, a \in 0..MaxAttrs, r \in {S_void, <<"i", "8", "*">>},
        ps \in ParamLists(MaxParams), c \in BOOLEAN, e \in LineEnds}

Shapes == FreeShapes \cup SymbolShapes \cup AliasShapes \cup DeclareShapes

RECURSIVE Repeat(_, _)
Repeat(t, n) == IF n = 0 THEN <<>> ELSE t \o Repeat(t, n - 1)

RECURSIVE RenderParams(_)
RenderParams(ps) ==
    IF ps = <<>> THEN <<>>
    ELSE Head(ps).text \o Repeat(<<" ">> \o S_noalias, Head(ps).attrs)
         \o (IF Len(ps) > 1 THEN <<",", " ">> ELSE <<>>) \o RenderParams(Tail(ps))

Unless(omitted, text) == IF omitted THEN <<>> ELSE text

Render(s) ==
    CASE s.kind = "free" -> s.head \o s.tail
      [] s.kind = "symbol" ->
            <<"@">> \o s.name \o <<" ", "=", " ">> \o Repeat(S_private \o <<" ">>, s.attrs)
            \o s.kw \o s.head
      [] s.kind = "alias" ->
            <<"@">> \o s.name \o <<" ", "=", " ">> \o Repeat(S_unnamed_addr \o <<" ">>, s.attrs)
            \o Unless(s.omit = "alias", S_alias \o <<" ">>)
            \o Unless(s.omit = "type1", S_void \o <<" ", "(", ")">>)
            \o Unless(s.omit = "comma", <<",">>) \o <<" ">>
            \o Unless(s.omit = "type2", S_void \o <<" ", "(", ")", "*">>) \o <<" ">>
            \o Unless(s.omit = "target", <<"@">> \o s.target)
            \o s.tail
      [] s.kind = "declare" ->
            S_declare \o <<" ">> \o Repeat(S_noalias \o <<" ">>, s.attrs) \o s.kw
            \o <<" ", "@">> \o s.name \o <<"(">> \o RenderParams(s.params)
            \o Unless(~s.close, <<")">>) \o s.tail

(***************************************************************************)
(* The state: a line, and the outcome of the one recognizer run on it.     *)
(***************************************************************************)
VARIABLES shape, input, op, result, tried

vars == <<shape, input, op, result, tried>>

NoItem == MkItem("None", <<>>, <<>>, <<>>)

\* IResult<CompleteStr, Item>: Ok((rest, item)), or Err at a position
Outcome(r) == [ok |-> r.ok, rest |-> r.rest, item |-> IF r.ok THEN r.val ELSE NoItem]

Init ==
    /\ shape \in Shapes
    /\ input = Render(shape)
    /\ op = "none"
    /\ result = Outcome(Err(<<>>))
    /\ tried = <<>>

\* One action per function of item.rs: the function is run on the line, once.
CallItem ==
    /\ op = "none"
    /\ op' = "item"
    /\ result' = Outcome(item(input))
    /\ tried' = item_traced(input).tried
    /\ UNCHANGED <<shape, input>>

CallComment ==
    /\ op = "none"
    /\ op' = "comment"
    /\ result' = Outcome(comment(input))
    /\ tried' = <<>>
    /\ UNCHANGED <<shape, input>>

CallSourceFilename ==
    /\ op = "none"
    /\ op' = "source_filename"
    /\ result' = Outcome(source_filename(input))
    /\ tried' = <<>>
    /\ UNCHANGED <<shape, input>>

CallTarget ==
    /\ op = "none"
    /\ op' = "target"
    /\ result' = Outcome(target(input))
    /\ tried' = <<>>
    /\ UNCHANGED <<shape, input>>

CallType ==
    /\ op = "none"
    /\ op' = "type_"
    /\ result' = Outcome(type_(input))
    /\ tried' = <<>>
    /\ UNCHANGED <<shape, input>>

CallGlobal ==
    /\ op = "none"
    /\ op' = "global"
    /\ result' = Outcome(global(input))
    /\ tried' = <<>>
    /\ UNCHANGED <<shape, input>>

CallAlias ==
    /\ op = "none"
    /\ op' = "alias"
    /\ result' = Outcome(alias(input))
    /\ tried' = <<>>
    /\ UNCHANGED <<shape, input>>

CallDefine ==
    /\ op = "none"
    /\ op' = "define"
    /\ result' = Outcome(define(input))
    /\ tried' = <<>>
    /\ UNCHANGED <<shape, input>>

CallDeclare ==
    /\ op = "none"
    /\ op' = "declare"
    /\ result' = Outcome(declare(input))
    /\ tried' = <<>>
    /\ UNCHANGED <<shape, input>>

CallAttributes ==
    /\ op = "none"
    /\ op' = "attributes"
    /\ result' = Outcome(attributes(input))
    /\ tried' = <<>>
    /\ UNCHANGED <<shape, input>>

CallMetadata ==
    /\ op = "none"
    /\ op' = "metadata"
    /\ result' = Outcome(metadata(input))
    /\ tried' = <<>>
    /\ UNCHANGED <<shape, input>>

Next ==
    \/ CallItem
    \/ CallComment
    \/ CallSourceFilename
    \/ CallTarget
    \/ CallType
    \/ CallGlobal
    \/ CallAlias
    \/ CallDefine
    \/ CallDeclare
    \/ CallAttributes
    \/ CallMetadata

Spec == Init /\ [][Next]_vars

(***************************************************************************)
(* Properties.                                                             *)
(***************************************************************************)
\* the order in which the dispatcher is to try the recognizers
FixedOrder ==
    <<"comment", "source_filename", "target", "type_", "global", "alias",
      "define", "declare", "attributes", "metadata">>

Succeeds(r) == Run(r, input).ok

Succeeding == {k \in 1..Len(FixedOrder) : Succeeds(FixedOrder[k])}

\* the first line terminator of t is an \r that no \n follows
BareCR(t) ==
    \E k \in 1..Len(t) :
        /\ t[k] = "\r"
        /\ \A j \in 1..(k - 1) : t[j] \notin {"\r", "\n"}
        /\ (k = Len(t) \/ t[k + 1] # "\n")

IsSuffix(t, s) == Len(t) <= Len(s) /\ Drop(s, Len(s) - Len(t)) = t

AtLineEnd(t) == t = <<>> \/ Head(t) = "\n" \/ starts_with(t, <<"\r", "\n">>)

HasLineEnd(t) == \E k \in 1..Len(t) : t[k] \in {"\r", "\n"}

IsIntrinsicName(n) == Len(n) >= 5 /\ SubSeq(n, 1, 5) = <<"l", "l", "v", "m", ".">>

\* C1: the dispatcher tries the recognizers in the fixed order, each one
\* after all earlier ones failed, returns exactly the result (item and
\* remainder) of the first one that succeeds, and fails if and only if all
\* ten fail.
C1_FirstSuccessInFixedOrder ==
    op = "item" =>
        /\ Len(tried) <= Len(FixedOrder)
        /\ \A k \in 1..Len(tried) : tried[k].rec = FixedOrder[k]
        /\ \A k \in 1..(Len(tried) - 1) : ~Succeeds(FixedOrder[k])
        /\ result.ok =>
              /\ Succeeds(FixedOrder[Len(tried)])
              /\ result = Outcome(Run(FixedOrder[Len(tried)], input))
        /\ ~result.ok <=> Succeeding = {}
        /\ ~result.ok => Len(tried) = Len(FixedOrder)

\* C1 witness: the eighth recognizer, declare, answered after seven failed.
C1_Witness ==
    /\ op = "item"
    /\ result.ok
    /\ result.item.tag = "Declare"
    /\ Len(tried) = 8

\* C2: every alternative of the dispatcher is started at the beginning of
\* the input, however far an earlier, failed alternative had read; the
\* result is that of a recognizer run on the whole input; and a failed item
\* parse produces no item and reports the input unconsumed.
C2_FailedAlternativeConsumesNothing ==
    op = "item" =>
        /\ \A k \in 1..Len(tried) : tried[k].at = 0
        /\ result.ok => result = Outcome(Run(tried[Len(tried)].rec, input))
        /\ ~result.ok => result.item = NoItem /\ result.rest = input

\* C2 witness: global read `@name = attribute ` before it failed, and alias,
\* tried after it, matched the line from its beginning.
C2_Witness ==
    /\ op = "item"
    /\ shape.kind = "alias"
    /\ shape.attrs > 0
    /\ ~global(input).ok
    /\ Len(input) - Len(global(input).rest) > Len(shape.name) + 4
    /\ result.ok
    /\ result.item.tag = "Alias"
    /\ result.rest = shape.tail

\* the line is `@g = ` attribute* k, and k is a whole word
KeywordIs(k) ==
    /\ shape.kind = "symbol"
    /\ shape.kw = k
    /\ (shape.head = <<>> \/ ~IsIdentChar(Head(shape.head)))

\* C3 as stated: on `@Name = <attributes> keyword`, the dispatcher returns
\* Global when the keyword is global or constant, Alias when it is alias and
\* a well-formed alias follows, and never the other variant.
C3_Original ==
    op = "item" =>
        /\ (KeywordIs(S_global) \/ KeywordIs(S_constant)) =>
              result.ok /\ result.item = Item_Global
        /\ (KeywordIs(S_alias) /\ shape.head = <<" ", "i", "8", ",", " ", "i", "8", "*", " ", "@", "t">>) =>
              result.ok /\ result.item = Item_Alias(<<"g">>, <<"t">>)
        /\ (KeywordIs(S_global) \/ KeywordIs(S_constant)) => result.item.tag # "Alias"
        /\ KeywordIs(S_alias) => result.item.tag # "Global"

\* C3 amended: the dispatcher returns Global when the keyword global or
\* constant is followed by at least one space or tab and the rest of the
\* line can be skipped (its first line terminator is not an \r without \n);
\* Alias when the keyword is alias and a well-formed alias follows; never
\* Alias for a global/constant line nor Global for an alias line.
C3_RoutesSharedPrefix ==
    op = "item" =>
        /\ ( /\ KeywordIs(S_global) \/ KeywordIs(S_constant)
             /\ shape.head # <<>>
             /\ IsSpace(Head(shape.head))
             /\ ~BareCR(shape.head) ) =>
              result.ok /\ result.item = Item_Global
        /\ (KeywordIs(S_alias) /\ shape.head = <<" ", "i", "8", ",", " ", "i", "8", "*", " ", "@", "t">>) =>
              result.ok /\ result.item = Item_Alias(<<"g">>, <<"t">>)
        /\ (KeywordIs(S_global) \/ KeywordIs(S_constant)) => result.item.tag # "Alias"
        /\ KeywordIs(S_alias) => result.item.tag # "Global"

\* C3 witness: a constant line with an attribute in front of the keyword
\* was routed to Global.
C3_Witness ==
    /\ op = "item"
    /\ KeywordIs(S_constant)
    /\ shape.attrs > 0
    /\ result.ok
    /\ result.item = Item_Global

\* C4: a successful declare parse has sig = None exactly when the name
\* begins with `llvm.`; for such a name the item is Declare{name, sig: None}
\* whatever text follows the `(`.
C4_SigAbsentIffIntrinsic ==
    (op = "declare" /\ result.ok) =>
        /\ result.item.tag = "Declare"
        /\ result.item.sig = <<>> <=> IsIntrinsicName(result.item.name)
        /\ Len(result.item.sig) <= 1
        /\ shape.kind = "declare" => result.item.name = shape.name

\* C4 witness: an intrinsic declared with parameter text that is no
\* parameter list was parsed to sig = None.
C4_Witness ==
    /\ op = "declare"
    /\ shape.kind = "free"
    /\ shape.tail = <<"x", "@">>
    /\ result.ok
    /\ IsIntrinsicName(result.item.name)
    /\ result.item.sig = <<>>

\* the types of the parameters as written, left to right
ExpectedInputs(ps) == [k \in 1..Len(ps) |-> ps[k].ty]

ExpectedOutput(text) == IF text = S_void THEN <<>> ELSE <<Type_Pointer(Type_Integer(8))>>

\* C5: a well-formed declare of a user symbol with N parameters parses to a
\* signature whose inputs are the N parameter types in source order, the
\* parameter attributes dropped; `()` gives no inputs.
C5_InputsInSourceOrder ==
    (op = "declare" /\ shape.kind = "declare" /\ shape.close /\ ~IsIntrinsicName(shape.name)) =>
        /\ result.ok
        /\ result.item.tag = "Declare"
        /\ Len(result.item.sig) = 1
        /\ Len(result.item.sig[1].inputs) = Len(shape.params)
        /\ result.item.sig[1].inputs = ExpectedInputs(shape.params)
        /\ result.item.sig[1].output = ExpectedOutput(shape.kw)

\* C5 witness: two parameters of different types, the first one with an
\* attribute, were parsed.
C5_Witness ==
    /\ op = "declare"
    /\ shape.kind = "declare"
    /\ shape.close
    /\ shape.name = <<"f">>
    /\ Len(shape.params) = 2
    /\ shape.params[1].attrs = 1
    /\ shape.params[1].ty # shape.params[2].ty
    /\ result.ok
    /\ Len(result.item.sig[1].inputs) = 2

\* C6: alias succeeds on `Name = ` attribute* `alias` type `,` type
\* `TargetName` with Alias(Name, TargetName), the types leaving no trace,
\* and fails when the keyword, the comma, a type or the target is missing.
C6_AliasNames ==
    (op = "alias" /\ shape.kind = "alias") =>
        /\ shape.omit = "none" =>
              /\ result.ok
              /\ result.item = Item_Alias(shape.name, shape.target)
              /\ result.rest = shape.tail
        /\ shape.omit # "none" => ~result.ok

\* C6 witness: an alias line whose two names differ was parsed.
C6_Witness ==
    /\ op = "alias"
    /\ shape.kind = "alias"
    /\ shape.omit = "none"
    /\ shape.name # shape.target
    /\ result.ok
    /\ result.item.tag = "Alias"

\* the prefix the specification lists for each shortcut recognizer
ListedPrefix(r, i) ==
    CASE r = "comment" -> char(";", i).ok
      [] r = "source_filename" ->
            Then(Then(tag(S_source_filename, i), space0), LAMBDA x : char("=", x)).ok
      [] r = "target" ->
            \E k \in {S_datalayout, S_triple} :
                Then(Then(Then(Then(tag(S_target, i), space), LAMBDA x : tag(k, x)), space0),
                     LAMBDA x : char("=", x)).ok
      [] r = "global" ->
            \E k \in {S_global, S_constant} :
                Then(Then(Then(Then(Then(super_global(i), space0), LAMBDA x : char("=", x)),
                               space0), many0_attribute_space), LAMBDA x : tag(k, x)).ok
      [] r = "type_" ->
            Then(Then(Then(Then(super_alias(i), space0), LAMBDA x : char("=", x)), space0),
                 LAMBDA x : tag(<<"t", "y", "p", "e">>, x)).ok
      [] r = "attributes" ->
            Then(Then(tag(S_attributes, i), space0), LAMBDA x : char("#", x)).ok
      [] r = "metadata" -> char("!", i).ok
      [] OTHER -> TRUE

\* C7 as stated: a shortcut recognizer succeeds only on an input that begins
\* with the prefix listed for it; in particular type_ returns Type only when
\* the `=` after the name is followed by the keyword `type`.
C7_ShortcutValidatesPrefix ==
    result.ok => ListedPrefix(op, input)

\* C8 as stated: once the common prefix of declare (through `(`) has
\* matched, declare succeeds and returns a Declare item, for an intrinsic
\* name and for any other name.
C8_Original ==
    (op = "declare" /\ declare_prefix(input).ok) =>
        result.ok /\ result.item.tag = "Declare"

\* C8 amended: once the common prefix has matched, declare with an intrinsic
\* name succeeds with Declare{name, sig: None} whenever the rest of the line
\* can be skipped (its first line terminator is not an \r without \n); with
\* any other name it succeeds exactly when a well-formed parameter list
\* closed by `)` follows, and fails otherwise.
C8_BranchOutcome ==
    (op = "declare" /\ declare_prefix(input).ok) =>
        LET name == declare_prefix(input).val[2]
            after == declare_prefix(input).rest
        IN  /\ (IsIntrinsicName(name) /\ ~BareCR(after)) =>
                  result.ok /\ result.item = Item_Declare(name, <<>>)
            /\ (~IsIntrinsicName(name) /\ shape.kind = "declare") =>
                  (result.ok <=> shape.close)
            /\ (~IsIntrinsicName(name) /\ shape.kind = "free"
                    /\ (shape.tail = <<>> \/ Head(shape.tail) # ")")) => ~result.ok

\* C8 witness: the prefix matched, with an intrinsic name, in front of text
\* that is no parameter list, and declare succeeded.
C8_Witness ==
    /\ op = "declare"
    /\ declare_prefix(input).ok
    /\ IsIntrinsicName(declare_prefix(input).val[2])
    /\ shape.kind = "free"
    /\ shape.tail = <<"@", ")">>
    /\ result.ok

\* C9: whichever recognizer succeeds on an input returns what the
\* dispatcher returns, so that no other order of the alternatives changes
\* the item, the remainder or the failure: at most one recognizer succeeds.
C9_OrderNotLoadBearing ==
    op = "item" =>
        /\ \A k \in Succeeding : Outcome(Run(FixedOrder[k], input)) = result
        /\ Cardinality(Succeeding) <= 1
        /\ Succeeding = {} => ~result.ok

\* C9 witness: an alias line, whose opening global shares, answered by
\* exactly one recognizer.
C9_Witness ==
    /\ op = "item"
    /\ KeywordIs(S_alias)
    /\ result.ok
    /\ Cardinality(Succeeding) = 1

ToEndOfLine == {"comment", "source_filename", "target", "global", "type_",
                "attributes", "metadata", "declare"}

\* C10: a shortcut recognizer or declare that succeeds has consumed the
\* line up to its end and nothing of the next: the remainder is the input
\* from its first line terminator on, hence empty when there is none.
C10_ConsumesThroughEndOfLine ==
    (op \in ToEndOfLine /\ result.ok) =>
        /\ IsSuffix(result.rest, input)
        /\ AtLineEnd(result.rest)
        /\ ~HasLineEnd(Take(input, Len(input) - Len(result.rest)))
        /\ ~HasLineEnd(input) => result.rest = <<>>

\* C10 witness: global succeeded on a line followed by another one, which
\* it left unread.
C10_Witness ==
    /\ op = "global"
    /\ result.ok
    /\ result.rest = <<"\n", "x">>

====
